---- MODULE Spec2Model ----
(***************************************************************************)
(* Model of services/dashboard/data_adapter.py: the price and candle       *)
(* resolvers, the backfill controller and the bot supervisor (BotManager   *)
(* and the /bot endpoints) of the AITB data adapter.                       *)
(*                                                                         *)
(* The server runs one uvicorn worker and every handler calls its leaf     *)
(* clients through blocking calls, so one request is in flight at a time;  *)
(* pc is the position of that request.  Time, the price points written by  *)
(* other services and the health of the store and of the exchange are the  *)
(* environment.                                                            *)
(***************************************************************************)
EXTENDS Integers, Sequences, FiniteSets, TLC

VARIABLES
    now,            \* datetime.now(timezone.utc), in seconds
    influx_client,  \* DataAdapter.influx_client is set
    write_api,      \* DataAdapter.write_api is set
    price_store,    \* measurement "prices": the last point of each symbol
    candle_store,   \* measurement "candles": per (symbol, timeframe) the points by time
    pc,             \* position of the request in flight
    req,            \* its parameters
    influx_price,   \* get_price: the local influx_price
    binance_price,  \* get_price: the local binance_price
    candles,        \* get_chart_candles / backfill_candles: the local candles
    influx_candles, \* what the store query of the request in flight returned
    binance_calls,  \* exchange requests issued by the request in flight
    write_state,    \* store write of the request in flight: "none", "unavailable",
                    \* "failed", "ok"
    resp,           \* the response of the last completed request
    requests,       \* candle and backfill requests received so far
    bot_manager,    \* the BotManager instance: its fields
    bot_tasks,      \* the /bot requests the event loop holds, by slot
    signals_received, \* heartbeats received so far that carried a signal
    last_set        \* the heartbeat or command that last set the state

vars == <<now, influx_client, write_api, price_store, candle_store, pc, req,
          influx_price, binance_price, candles, influx_candles, binance_calls, write_state,
          resp, requests, bot_manager, bot_tasks, signals_received, last_set>>

\* the state of the bot supervisor
bot_vars == <<bot_manager, bot_tasks, signals_received, last_set>>

\* the state of the resolvers and of the backfill controller
data_vars == <<influx_client, write_api, price_store, candle_store, pc, req,
               influx_price, binance_price, candles, influx_candles,
               binance_calls, write_state, requests>>

----------------------------------------------------------------------------
(* Bounds of the model *)

Symbols == {"BTCUSDT", "ETHUSDT"}
Prices == {100, 101}
Intervals == {"1m", "1d"}
\* the symbol of the candle and backfill requests
CandleSymbols == {"BTCUSDT"}

\* the clock starts here, an hour into a day
StartTime == 200 * 86400 + 3600
\* the limits that requests carry
Limits == {0, 1, 3, 8, 100}
\* candle and backfill requests a run receives
MaxRequests == 2

----------------------------------------------------------------------------
(* Program constants *)

T_fresh == 300
LookBack == 3600
\* test_data_adapter.py, Test 2: the age of a fresh timestamp, in seconds
fresh_age == 5
\* get_candles_from_influx: range(start: -7d), in seconds
CandleRange == 7 * 86400
\* check_influx_candle_count: hours
CountHours == 24
\* get_chart_candles: the store answer is sufficient from min(50, limit // 2) on
SufficientCap == 50
\* backfill_candles: threshold
threshold == 100

None == [kind |-> "none"]
NoResp == [op |-> "none"]

----------------------------------------------------------------------------
(* The environment *)

\* time passes between two requests: the clock moves on to a later instant t
\* (the running time of a request is nothing against the periods of the model)
Tick(t) ==
    /\ pc = "idle"
    /\ \A id \in DOMAIN bot_tasks : bot_tasks[id].kind = "idle"
    /\ t > now
    /\ now' = t
    /\ UNCHANGED bot_vars
    /\ UNCHANGED <<influx_client, write_api, price_store, candle_store, pc, req,
                   influx_price, binance_price, candles, influx_candles,
                   binance_calls, write_state, resp, requests>>

\* another service (the bot) writes a price point for symbol s
WritePricePoint(s, p) ==
    /\ price_store' = [price_store EXCEPT ![s] =
                          [kind |-> "point", price |-> p, time |-> now]]
    /\ UNCHANGED bot_vars
    /\ UNCHANGED <<now, influx_client, write_api, candle_store, pc, req,
                   influx_price, binance_price, candles, influx_candles,
                   binance_calls, write_state, resp, requests>>

----------------------------------------------------------------------------
(* DataAdapter: price *)

\* an exception raised by a leaf call and not caught there
Raise == [kind |-> "raise"]

\* the query error escapes instead of being logged and turned into None
get_latest_price_from_influx_raises(symbol, query_ok) ==
    IF ~influx_client THEN None
    ELSE IF ~query_ok THEN Raise
    ELSE IF /\ price_store[symbol] # None
            /\ price_store[symbol].time >= now - LookBack
         THEN [kind |-> "price", symbol |-> symbol,
               price |-> price_store[symbol].price,
               timestamp |-> price_store[symbol].time, source |-> "influx"]
         ELSE None

\* get_latest_price_from_influx: range(start: -1h) |> last(); None without a
\* client, on a query error and when no row is in the range
get_latest_price_from_influx(symbol, query_ok) ==
    IF ~influx_client THEN None
    ELSE IF ~query_ok THEN None
    ELSE IF /\ price_store[symbol] # None
            /\ price_store[symbol].time >= now - LookBack
         THEN [kind |-> "price", symbol |-> symbol,
               price |-> price_store[symbol].price,
               timestamp |-> price_store[symbol].time, source |-> "influx"]
         ELSE None

\* get_price_from_binance: None on any transport error or bad status
get_price_from_binance(symbol, http_ok, price) ==
    IF ~http_ok THEN None
    ELSE [kind |-> "price", symbol |-> symbol, price |-> price,
          timestamp |-> now, source |-> "binance"]

\* every point of the look-back window counts as recent
price_is_recent_in_window(price_time) == now - price_time <= LookBack

\* get_price, lines 447-450: the store price is recent
price_is_recent(price_time) == now - price_time <= T_fresh

PriceResponse(p) ==
    [op |-> "price", status |-> 200, symbol |-> p.symbol, price |-> p.price,
     timestamp |-> p.timestamp, source |-> p.source, at |-> now]

HTTPException(op, code) == [op |-> op, status |-> code, at |-> now]

\* not found as soon as the store had nothing
get_price_fallback_store_miss(p) ==
    IF p = None \/ influx_price = None
    THEN HTTPException("price", 404) ELSE PriceResponse(p)

\* get_price, lines 455-458: the answer of the fallback
get_price_fallback(p) ==
    IF p = None THEN HTTPException("price", 404) ELSE PriceResponse(p)

\* get_price, lines 441-451 and 462-464: the store is asked first
get_price_influx(symbol, query_ok) ==
    /\ pc = "idle"
    /\ LET p == get_latest_price_from_influx(symbol, query_ok) IN
       /\ influx_price' = p
       /\ req' = [op |-> "price", symbol |-> symbol, query_ok |-> query_ok]
       /\ binance_price' = None
       /\ binance_calls' = 0
       /\ write_state' = "none"
       /\ IF p = Raise
          THEN /\ resp' = HTTPException("price", 500)
               /\ pc' = "idle"
          ELSE IF p # None /\ price_is_recent(p.timestamp)
          THEN /\ resp' = PriceResponse(p)
               /\ pc' = "idle"
          ELSE /\ pc' = "price_binance"
               /\ UNCHANGED resp
    /\ UNCHANGED bot_vars
    /\ UNCHANGED <<now, influx_client, write_api, price_store, candle_store,
                   candles, influx_candles, requests>>

\* the price of the exchange is written to the store
get_price_binance_caches(http_ok, price) ==
    /\ pc = "price_binance"
    /\ LET p == get_price_from_binance(req.symbol, http_ok, price) IN
       /\ binance_price' = p
       /\ binance_calls' = binance_calls + 1
       /\ resp' = get_price_fallback(p)
       /\ price_store' =
             IF p = None THEN price_store
             ELSE [price_store EXCEPT ![req.symbol] =
                      [kind |-> "point", price |-> p.price, time |-> now]]
       /\ pc' = "idle"
    /\ UNCHANGED bot_vars
    /\ UNCHANGED <<now, influx_client, write_api, candle_store,
                   req, influx_price, candles, influx_candles, write_state,
                   requests>>

\* get_price, lines 453-458: fallback to the exchange
get_price_binance(http_ok, price) ==
    /\ pc = "price_binance"
    /\ LET p == get_price_from_binance(req.symbol, http_ok, price) IN
       /\ binance_price' = p
       /\ binance_calls' = binance_calls + 1
       /\ resp' = get_price_fallback(p)
       /\ pc' = "idle"
    /\ UNCHANGED bot_vars
    /\ UNCHANGED <<now, influx_client, write_api, price_store, candle_store,
                   req, influx_price, candles, influx_candles, write_state,
                   requests>>

----------------------------------------------------------------------------
(* DataAdapter: markets *)

\* DataAdapter.__init__: default_symbols
default_symbols ==
    <<"BTCUSDT", "ETHUSDT", "BNBUSDT", "XRPUSDT", "SOLUSDT",
      "ADAUSDT", "DOGEUSDT", "AVAXUSDT", "DOTUSDT", "MATICUSDT",
      "LINKUSDT", "ATOMUSDT", "LTCUSDT", "UNIUSDT", "ETCUSDT",
      "FILUSDT", "TRXUSDT", "ALGOUSDT", "XLMUSDT", "VETUSDT">>

\* get_markets_from_binance: markets[:20]
top_markets == 20
\* test_data_adapter.py, Test 3: the fewest markets of the requirement
fewest_markets == 10

\* the 24 h tickers of an exchange that lists the first k default symbols
\* and a symbol that is not one of them; the volumes are in no order
Tickers(k) ==
    [i \in 1..(k + 1) |->
        IF i <= k
        THEN [symbol |-> default_symbols[i], volume |-> (7 * i) % 23]
        ELSE [symbol |-> "SHIBUSDT", volume |-> 40]]

\* how many default symbols the exchange may list
Listed == {0, 1, 9, 10, 20}

\* markets.sort(key=volume, reverse=True): highest volume first, the order
\* of equal volumes kept
SortByVolume(ms) ==
    LET Pos(i) == 1 + Cardinality({j \in 1..Len(ms) :
                          \/ ms[j].volume > ms[i].volume
                          \/ ms[j].volume = ms[i].volume /\ j < i})
        placed == {<<Pos(i), ms[i]>> : i \in 1..Len(ms)}
    IN [k \in 1..Len(ms) |-> (CHOOSE pr \in placed : pr[1] = k)[2]]

\* get_markets_from_binance, lines 262-294: the tickers of the default
\* symbols, highest volume first, 20 at most; [] on any error
get_markets_from_binance(symbols, tickers, http_ok) ==
    IF ~http_ok THEN <<>>
    ELSE LET mine == SelectSeq(tickers, LAMBDA t :
                        \E i \in 1..Len(symbols) : symbols[i] = t.symbol)
             sorted == SortByVolume(
                 [k \in 1..Len(mine) |->
                     [symbol |-> mine[k].symbol, volume |-> mine[k].volume,
                      timestamp |-> now]])
         IN IF Len(sorted) <= top_markets THEN sorted
            ELSE SubSeq(sorted, 1, top_markets)

\* an empty list is answered too
markets_found_always(markets) == TRUE

\* get_markets, line 472: the exchange gave markets
markets_found(markets) == markets # <<>>

\* get_markets, lines 475-479
MarketsResponse(markets) ==
    [op |-> "markets", status |-> 200, markets |-> markets,
     timestamp |-> now, count |-> Len(markets), at |-> now]

\* GET /data/markets, lines 466-485
get_markets(tickers, http_ok) ==
    /\ pc = "idle"
    /\ LET markets == get_markets_from_binance(default_symbols, tickers,
                                               http_ok)
       IN resp' = IF markets_found(markets) THEN MarketsResponse(markets)
                  ELSE HTTPException("markets", 503)
    /\ req' = [op |-> "markets"]
    /\ binance_calls' = 1
    /\ UNCHANGED bot_vars
    /\ UNCHANGED <<now, influx_client, write_api, price_store, candle_store,
                   pc, influx_price, binance_price, candles, influx_candles,
                   write_state, requests>>

----------------------------------------------------------------------------

(* DataAdapter: candles *)

\* the length of a kline interval of the exchange, in seconds
IntervalSeconds(interval) == IF interval = "1m" THEN 60 ELSE 86400

\* the close of the kline that opens at open_time (it stands for the five
\* values open, high, low, close, volume)
KlineClose(open_time) == 100 + ((open_time \div 60) % 7)

\* GET /klines: the `limit` latest klines of the interval, oldest first, the
\* last one being the kline that is open now.  A kline opens on a whole
\* second, so int(kline[0]) // 1000 is that second: the open time is kept in
\* seconds here
Klines(interval, limit) ==
    LET step == IntervalSeconds(interval)
        last == now - (now % step)
    IN [k \in 1..limit |->
           LET t == last - (limit - k) * step
           IN <<t, KlineClose(t)>>]

\* get_candles_from_binance: [] on any transport error or bad status
get_candles_from_binance(symbol, interval, limit, http_ok) ==
    IF ~http_ok THEN <<>>
    ELSE LET klines == Klines(interval, limit)
         IN [k \in 1..Len(klines) |->
                [timestamp |-> klines[k][1], close |-> klines[k][2],
                 symbol |-> symbol, timeframe |-> interval]]

\* the store keeps one point per (symbol, timeframe, time), by time: a written
\* point replaces the point of the same time; old and new are by time
MergePoints(old, new) ==
    LET kept == SelectSeq(old, LAMBDA p :
                    \A j \in 1..Len(new) : new[j].time # p.time)
        PosKept(i) ==
            i + Cardinality({j \in 1..Len(new) : new[j].time < kept[i].time})
        PosNew(j) ==
            j + Cardinality({i \in 1..Len(kept) : kept[i].time < new[j].time})
        placed == {<<PosKept(i), kept[i]>> : i \in 1..Len(kept)}
                      \cup {<<PosNew(j), new[j]>> : j \in 1..Len(new)}
    IN [k \in 1..(Len(kept) + Len(new)) |->
           (CHOOSE pr \in placed : pr[1] = k)[2]]

\* write_candles_to_influx, lines 337-351: the points of the candles
CandlePoints(cs) ==
    [k \in 1..Len(cs) |-> [time |-> cs[k].timestamp, close |-> cs[k].close]]

\* write_candles_to_influx, lines 333 and 353-359: what becomes of the write
WriteOutcome(cs, write_ok) ==
    IF ~write_api \/ cs = <<>> THEN "unavailable"
    ELSE IF ~write_ok THEN "failed"
    ELSE "ok"

\* write_candles_to_influx, line 353: the store after the write
StoreAfterWrite(cs, write_ok) ==
    IF WriteOutcome(cs, write_ok) # "ok" THEN candle_store
    ELSE LET key == <<cs[1].symbol, cs[1].timeframe>>
         IN [candle_store EXCEPT
                ![key] = MergePoints(@, CandlePoints(cs))]

\* write_candles_to_influx: the count it returns, 0 or len(points)
write_candles_to_influx(cs, write_ok) ==
    IF WriteOutcome(cs, write_ok) # "ok" THEN 0 ELSE Len(cs)

\* the rows of (symbol, interval) not older than `range` seconds
RowsInRange(symbol, interval, range) ==
    SelectSeq(candle_store[<<symbol, interval>>],
              LAMBDA p : p.time >= now - range)

\* check_influx_candle_count: count() over the last 24 hours; 0 without a
\* client, on a query error and when no row is in the range
check_influx_candle_count(symbol, interval, query_ok) ==
    IF ~influx_client THEN 0
    ELSE IF ~query_ok THEN 0
    ELSE Len(RowsInRange(symbol, interval, CountHours * 3600))

\* get_candles_from_influx: the last `limit` rows of the last 7 days, oldest
\* first; [] without a client and on a query error
get_candles_from_influx(symbol, interval, limit, query_ok) ==
    IF ~influx_client THEN <<>>
    ELSE IF ~query_ok THEN <<>>
    ELSE LET rows == RowsInRange(symbol, interval, CandleRange)
             n == Len(rows)
             tail == IF limit >= n THEN rows
                     ELSE SubSeq(rows, n - limit + 1, n)
         IN [k \in 1..Len(tail) |->
                [timestamp |-> tail[k].time, close |-> tail[k].close,
                 symbol |-> symbol, timeframe |-> interval]]

Min(a, b) == IF a <= b THEN a ELSE b

\* the limit is left out of the bound
sufficient_from_cap(cs, limit) ==
    cs # <<>> /\ Len(cs) >= SufficientCap

\* half of the limit is not rounded down
sufficient_half_up(cs, limit) ==
    cs # <<>> /\ 2 * Len(cs) >= Min(2 * SufficientCap, limit)

\* get_chart_candles, line 498: the store answer is sufficient
sufficient(cs, limit) ==
    cs # <<>> /\ Len(cs) >= Min(SufficientCap, limit \div 2)

\* get_chart_candles, lines 500-506 and 520-526
CandlesResponse(r, cs, source, from_store, calls, write) ==
    [op |-> "candles", status |-> 200, candles |-> cs, symbol |-> r.symbol,
     interval |-> r.interval, limit |-> r.limit, count |-> Len(cs),
     source |-> source, at |-> now,
     from_store |-> from_store, binance_calls |-> calls, write |-> write]

\* the write failure reaches the caller
FallbackResponseUnlessWriteFailed(r, cs, from_store, calls, write) ==
    IF write # "ok" THEN HTTPException("candles", 500)
    ELSE CandlesResponse(r, cs, "binance", from_store, calls, write)

\* get_chart_candles, lines 520-526: the answer of the fallback
FallbackResponse(r, cs, from_store, calls, write) ==
    CandlesResponse(r, cs, "binance", from_store, calls, write)

\* get_chart_candles, line 528
NoCandles(r, from_store, calls) ==
    [op |-> "candles", status |-> 404, symbol |-> r.symbol,
     interval |-> r.interval, limit |-> r.limit, at |-> now,
     from_store |-> from_store, binance_calls |-> calls, write |-> "none"]

\* the exchange is asked together with the store
get_chart_candles_dual_fetch(symbol, interval, limit, query_ok) ==
    /\ pc = "idle"
    /\ requests < MaxRequests
    /\ requests' = requests + 1
    /\ req' = [op |-> "candles", symbol |-> symbol, interval |-> interval,
               limit |-> limit, query_ok |-> query_ok,
               cancelled_at |-> "none"]
    /\ candles' = get_candles_from_influx(symbol, interval, limit, query_ok)
    /\ influx_candles' = candles'
    /\ binance_calls' = 1
    /\ write_state' = "none"
    /\ pc' = "candles_check"
    /\ UNCHANGED bot_vars
    /\ UNCHANGED <<now, influx_client, write_api, price_store, candle_store,
                   influx_price, binance_price, resp>>

\* get_chart_candles, line 496: the store is asked first
get_chart_candles_influx(symbol, interval, limit, query_ok) ==
    /\ pc = "idle"
    /\ requests < MaxRequests
    /\ requests' = requests + 1
    /\ req' = [op |-> "candles", symbol |-> symbol, interval |-> interval,
               limit |-> limit, query_ok |-> query_ok,
               cancelled_at |-> "none"]
    /\ candles' = get_candles_from_influx(symbol, interval, limit, query_ok)
    /\ influx_candles' = candles'
    /\ binance_calls' = 0
    /\ write_state' = "none"
    /\ pc' = "candles_check"
    /\ UNCHANGED bot_vars
    /\ UNCHANGED <<now, influx_client, write_api, price_store, candle_store,
                   influx_price, binance_price, resp>>

\* get_chart_candles, lines 498-509: a sufficient store answer is returned
get_chart_candles_check ==
    /\ pc = "candles_check"
    /\ IF sufficient(candles, req.limit)
       THEN /\ resp' = CandlesResponse(req, candles, "influxdb", Len(candles),
                                       0, "none")
            /\ pc' = "idle"
       ELSE /\ pc' = "candles_binance"
            /\ UNCHANGED resp
    /\ UNCHANGED bot_vars
    /\ UNCHANGED <<now, influx_client, write_api, price_store, candle_store,
                   req, influx_price, binance_price, candles, influx_candles,
                   binance_calls, write_state, requests>>

\* a failed exchange request is made once more
get_chart_candles_binance_retries(http_ok) ==
    /\ pc = "candles_binance"
    /\ LET cs == get_candles_from_binance(req.symbol, req.interval, req.limit,
                                          http_ok) IN
       /\ candles' = cs
       /\ binance_calls' = binance_calls + 1
       /\ IF cs # <<>>
          THEN /\ pc' = "candles_write"
               /\ UNCHANGED resp
          ELSE IF binance_calls = 0
          THEN /\ pc' = "candles_binance"
               /\ UNCHANGED resp
          ELSE /\ resp' = NoCandles(req, Len(influx_candles), binance_calls + 1)
               /\ pc' = "idle"
    /\ UNCHANGED bot_vars
    /\ UNCHANGED <<now, influx_client, write_api, price_store, candle_store,
                   req, influx_price, binance_price, influx_candles,
                   write_state, requests>>

\* get_chart_candles, lines 510-512 and 528: fallback to the exchange
get_chart_candles_binance(http_ok) ==
    /\ pc = "candles_binance"
    /\ LET cs == get_candles_from_binance(req.symbol, req.interval, req.limit,
                                          http_ok) IN
       /\ candles' = cs
       /\ binance_calls' = binance_calls + 1
       /\ IF cs # <<>>
          THEN /\ pc' = "candles_write"
               /\ UNCHANGED resp
          ELSE /\ resp' = NoCandles(req, Len(influx_candles), binance_calls + 1)
               /\ pc' = "idle"
    /\ UNCHANGED bot_vars
    /\ UNCHANGED <<now, influx_client, write_api, price_store, candle_store,
                   req, influx_price, binance_price, influx_candles,
                   write_state, requests>>

\* the caller of get candles gives up (a timeout of its own, or a closed
\* connection) once the exchange fetch has returned.  The handler has no
\* suspension point left: write_candles_to_influx calls the synchronous write
\* api, so the coroutine is not interrupted; only the request is marked
caller_cancels ==
    /\ req.op = "candles"
    /\ pc \in {"candles_write", "candles_return"}
    /\ req.cancelled_at = "none"
    /\ req' = [req EXCEPT !.cancelled_at = pc]
    /\ UNCHANGED bot_vars
    /\ UNCHANGED <<now, influx_client, write_api, price_store, candle_store,
                   pc, influx_price, binance_price, candles, influx_candles,
                   binance_calls, write_state, resp, requests>>

\* the write is given up with the caller
get_chart_candles_write_unless_cancelled(write_ok) ==
    /\ pc = "candles_write"
    /\ IF req.cancelled_at # "none"
       THEN /\ pc' = "idle"
            /\ UNCHANGED <<candle_store, write_state>>
       ELSE /\ candle_store' = StoreAfterWrite(candles, write_ok)
            /\ write_state' = WriteOutcome(candles, write_ok)
            /\ pc' = "candles_return"
    /\ UNCHANGED bot_vars
    /\ UNCHANGED <<now, influx_client, write_api, price_store, req,
                   influx_price, binance_price, candles, influx_candles,
                   binance_calls, resp, requests>>

\* get_chart_candles, lines 514-518: the fetched candles are written to the
\* store, and the handler waits for the write
get_chart_candles_write(write_ok) ==
    /\ pc = "candles_write"
    /\ candle_store' = StoreAfterWrite(candles, write_ok)
    /\ write_state' = WriteOutcome(candles, write_ok)
    /\ pc' = "candles_return"
    /\ UNCHANGED bot_vars
    /\ UNCHANGED <<now, influx_client, write_api, price_store, req,
                   influx_price, binance_price, candles, influx_candles,
                   binance_calls, resp, requests>>

\* get_chart_candles, lines 520-526: the exchange candles are returned
get_chart_candles_return ==
    /\ pc = "candles_return"
    /\ resp' = FallbackResponse(req, candles, Len(influx_candles),
                                binance_calls, write_state)
    /\ pc' = "idle"
    /\ UNCHANGED bot_vars
    /\ UNCHANGED <<now, influx_client, write_api, price_store, candle_store,
                   req, influx_price, binance_price, candles, influx_candles,
                   binance_calls, write_state, requests>>

----------------------------------------------------------------------------
(* backfill *)

\* backfill_candles, lines 553, 569 and 580: the message, its text and the
\* number it carries
BackfillMessage(r, status, written) ==
    IF status = "skipped"
    THEN [text |-> "Sufficient data exists", n |-> r.current_count]
    ELSE IF status = "failed"
    THEN [text |-> "No candle data available from Binance", n |-> 0]
    ELSE [text |-> "Successfully backfilled", n |-> written]

\* BackfillResponse
BackfillResponse(r, status, written, calls, write) ==
    [op |-> "backfill", status |-> status, symbol |-> r.symbol,
     interval |-> r.interval, limit |-> r.limit,
     candlesWritten |-> written, current_count |-> r.current_count,
     message |-> BackfillMessage(r, status, written),
     at |-> now, binance_calls |-> calls, write |-> write]

\* the threshold itself is not enough
needs_no_backfill_above(current_count) == current_count > threshold

\* backfill_candles, line 548: the store has enough candles
needs_no_backfill(current_count) == current_count >= threshold

\* the failure of the exchange reaches the caller as an exception
BackfillFailedRaises(r, calls) == HTTPException("error", 500)

\* backfill_candles, lines 564-571: no candles from the exchange
BackfillFailed(r, calls) == BackfillResponse(r, "failed", 0, calls, "none")

\* backfill_candles, lines 541-544: the coverage of the store is measured
backfill_candles_count(symbol, interval, limit, query_ok) ==
    /\ pc = "idle"
    /\ requests < MaxRequests
    /\ requests' = requests + 1
    /\ req' = [op |-> "backfill", symbol |-> symbol, interval |-> interval,
               limit |-> limit, query_ok |-> query_ok,
               current_count |->
                   check_influx_candle_count(symbol, interval, query_ok)]
    /\ candles' = <<>>
    /\ influx_candles' = <<>>
    /\ binance_calls' = 0
    /\ write_state' = "none"
    /\ pc' = "backfill_check"
    /\ UNCHANGED bot_vars
    /\ UNCHANGED <<now, influx_client, write_api, price_store, candle_store,
                   influx_price, binance_price, resp>>

\* backfill_candles, lines 547-555: enough candles, nothing to do
backfill_candles_check ==
    /\ pc = "backfill_check"
    /\ IF needs_no_backfill(req.current_count)
       THEN /\ resp' = BackfillResponse(req, "skipped", 0, 0, "none")
            /\ pc' = "idle"
       ELSE /\ pc' = "backfill_binance"
            /\ UNCHANGED resp
    /\ UNCHANGED bot_vars
    /\ UNCHANGED <<now, influx_client, write_api, price_store, candle_store,
                   req, influx_price, binance_price, candles, influx_candles,
                   binance_calls, write_state, requests>>

\* backfill_candles, lines 557-571: the candles are fetched from the exchange
backfill_candles_binance(http_ok) ==
    /\ pc = "backfill_binance"
    /\ LET cs == get_candles_from_binance(req.symbol, req.interval, req.limit,
                                          http_ok) IN
       /\ candles' = cs
       /\ binance_calls' = binance_calls + 1
       /\ IF cs = <<>>
          THEN /\ resp' = BackfillFailed(req, binance_calls + 1)
               /\ pc' = "idle"
          ELSE /\ pc' = "backfill_write"
               /\ UNCHANGED resp
    /\ UNCHANGED bot_vars
    /\ UNCHANGED <<now, influx_client, write_api, price_store, candle_store,
                   req, influx_price, binance_price, influx_candles,
                   write_state, requests>>

\* backfill_candles, lines 573-582: the candles are written and counted
backfill_candles_write(write_ok) ==
    /\ pc = "backfill_write"
    /\ LET written_count == write_candles_to_influx(candles, write_ok)
       IN /\ candle_store' = StoreAfterWrite(candles, write_ok)
          /\ write_state' = WriteOutcome(candles, write_ok)
          /\ resp' = BackfillResponse(req, "success", written_count,
                                      binance_calls, write_state')
          /\ pc' = "idle"
    /\ UNCHANGED bot_vars
    /\ UNCHANGED <<now, influx_client, write_api, price_store, req,
                   influx_price, binance_price, candles, influx_candles,
                   binance_calls, requests>>

----------------------------------------------------------------------------
(* BotManager and the /bot endpoints *)

\* the states a worker reports
BotStates == {"running", "paused", "stopped"}
\* the (symbol, tf) pairs of heartbeats and commands
BotPairs == {<<"BTCUSDT", "15m">>, <<"ETHUSDT", "1h">>}
\* what heartbeats carry: symbol, tf, openPositions, pnl
BotPayloads == {<<"BTCUSDT", "15m", (<<>>), 0>>,
                <<"ETHUSDT", "1h", (<<"long">>), 5>>}
\* the actions of commands, one of them not an action
BotActions == {"start", "pause", "stop", "restart"}
\* heartbeats carrying a signal that a run receives
MaxSignals == 5
\* slots of the event loop for /bot requests
MaxBotTasks == 2
\* seconds by which the timestamp of a heartbeat precedes its arrival
PayloadLag == 30

\* BotManager.is_heartbeat_stale: max_age_seconds
max_age_seconds == 60
\* BotManager.update_heartbeat: the signals kept
SignalCapacity == 3

BotTasks == 1..MaxBotTasks
NoTask == [kind |-> "idle"]

\* a request takes the first slot that is free
free_slot(id) ==
    /\ bot_tasks[id] = NoTask
    /\ \A j \in BotTasks : j < id => bot_tasks[j] # NoTask

\* the n-th signal received
Signal(n) == [kind |-> "signal", id |-> n]

\* the handlers of the /bot endpoints are coroutines without an await: the
\* event loop of the single worker starts a handler only when no other
\* handler is under way
loop_can_start_any == TRUE

loop_can_start ==
    /\ pc = "idle"
    /\ \A id \in BotTasks : bot_tasks[id].kind = "idle"

\* the bot is taken to be running from the start
BotManagerInit_running ==
    [state |-> "running", current_symbol |-> "BTCUSDT", current_tf |-> "15m",
     last_heartbeat |-> StartTime, open_positions |-> <<>>, pnl |-> 0,
     last_signals |-> <<>>]

\* BotManager.__init__
BotManagerInit ==
    [state |-> "stopped", current_symbol |-> "BTCUSDT", current_tf |-> "15m",
     last_heartbeat |-> StartTime, open_positions |-> <<>>, pnl |-> 0,
     last_signals |-> <<>>]

\* the time of the payload is taken for the time of arrival
heartbeat_time_payload(hb) == hb.timestamp

\* update_heartbeat, line 135: the time of arrival
heartbeat_time(hb) == now

\* every signal is kept
keep_all(signals) == signals

\* update_heartbeat, line 145: last_signals[:3]
keep_last(signals) ==
    SubSeq(signals, 1, Min(SignalCapacity, Len(signals)))

\* the signal is taken whether the heartbeat carries one or not
carries_signal_always(hb) == TRUE

\* update_heartbeat, line 143: the heartbeat carries a signal
carries_signal(hb) == hb.lastSignal # None

\* update_heartbeat, lines 135-145, one statement at a time: the task and the
\* manager after the statement at t.pc
update_heartbeat_step(t, bm) ==
    CASE t.pc = "last_heartbeat" ->
             [task |-> [t EXCEPT !.pc = "state"],
              bm |-> [bm EXCEPT !.last_heartbeat = heartbeat_time(t.hb)]]
      [] t.pc = "state" ->
             [task |-> [t EXCEPT !.pc = "current_symbol"],
              bm |-> [bm EXCEPT !.state = t.hb.state]]
      [] t.pc = "current_symbol" ->
             [task |-> [t EXCEPT !.pc = "current_tf"],
              bm |-> [bm EXCEPT !.current_symbol = t.hb.symbol]]
      [] t.pc = "current_tf" ->
             [task |-> [t EXCEPT !.pc = "open_positions"],
              bm |-> [bm EXCEPT !.current_tf = t.hb.tf]]
      [] t.pc = "open_positions" ->
             [task |-> [t EXCEPT !.pc = "pnl"],
              bm |-> [bm EXCEPT !.open_positions = t.hb.openPositions]]
      [] t.pc = "pnl" ->
             [task |-> [t EXCEPT !.pc = IF carries_signal(t.hb)
                                        THEN "insert" ELSE "return"],
              bm |-> [bm EXCEPT !.pnl = t.hb.pnl]]
      [] t.pc = "insert" ->
             [task |-> [t EXCEPT !.pc = "trim"],
              bm |-> [bm EXCEPT !.last_signals = <<t.hb.lastSignal>> \o @]]
      [] t.pc = "trim" ->
             [task |-> [t EXCEPT !.pc = "return"],
              bm |-> [bm EXCEPT !.last_signals = keep_last(@)]]

\* bot_heartbeat, lines 646-650
HeartbeatResponse ==
    [op |-> "heartbeat", status |-> 200, message |-> "Heartbeat received",
     at |-> now]

\* the state is left as it is by a command issued after a disconnection
set_state_value_unless_disconnected(action, state) ==
    IF state = "disconnected" THEN state
    ELSE IF action = "start" THEN "running"
    ELSE IF action = "pause" THEN "paused"
    ELSE IF action = "stop" THEN "stopped"
    ELSE state

\* set_state, lines 149-154: the state an action sets
set_state_value(action, state) ==
    IF action = "start" THEN "running"
    ELSE IF action = "pause" THEN "paused"
    ELSE IF action = "stop" THEN "stopped"
    ELSE state

\* the positions survive a stop
set_state_positions_kept(action, positions) == positions

\* every command empties the positions
set_state_positions_cleared(action, positions) == <<>>

\* set_state, lines 153-155: a stop empties the positions
set_state_positions(action, positions) ==
    IF action = "stop" THEN <<>> ELSE positions

\* bot_control, lines 605-612
ControlResponse(t, bm) ==
    [op |-> "control", status |-> 200, action |-> t.action,
     newState |-> bm.state, symbol |-> bm.current_symbol,
     tf |-> bm.current_tf, at |-> now]

\* every action is let through
valid_action_any(action) == TRUE

\* bot_control, line 596: the action is one of the three
valid_action(action) == action \in {"start", "pause", "stop"}

\* bot_control and set_state, lines 596-160, one statement at a time
bot_control_step(t, bm) ==
    CASE t.pc = "validate" ->
             [task |-> [t EXCEPT !.pc = IF valid_action(t.action)
                                        THEN "state" ELSE "raise"],
              bm |-> bm]
      [] t.pc = "state" ->
             [task |-> [t EXCEPT !.pc = "open_positions"],
              bm |-> [bm EXCEPT !.state = set_state_value(t.action, @)]]
      [] t.pc = "open_positions" ->
             [task |-> [t EXCEPT !.pc = "current_symbol"],
              bm |-> [bm EXCEPT !.open_positions =
                                    set_state_positions(t.action, @)]]
      [] t.pc = "current_symbol" ->
             [task |-> [t EXCEPT !.pc = "current_tf"],
              bm |-> IF t.symbol # "" THEN [bm EXCEPT !.current_symbol = t.symbol]
                     ELSE bm]
      [] t.pc = "current_tf" ->
             [task |-> [t EXCEPT !.pc = "return"],
              bm |-> IF t.tf # "" THEN [bm EXCEPT !.current_tf = t.tf]
                     ELSE bm]

\* BotManager.get_status, lines 162-172
get_status(bm) ==
    [state |-> bm.state, lastHeartbeatTs |-> bm.last_heartbeat,
     currentSymbol |-> bm.current_symbol, tf |-> bm.current_tf,
     openPositions |-> bm.open_positions, pnl |-> bm.pnl,
     lastSignals |-> bm.last_signals]

\* stale from the limit on
is_heartbeat_stale_at_limit(last_heartbeat) ==
    now - last_heartbeat >= max_age_seconds

\* BotManager.is_heartbeat_stale, lines 174-177
is_heartbeat_stale(last_heartbeat) ==
    now - last_heartbeat > max_age_seconds

\* a stale heartbeat is enough
reports_disconnected_when_stale(bm) ==
    is_heartbeat_stale(bm.last_heartbeat)

\* bot_status, line 626: the bot is marked as disconnected
reports_disconnected(bm) ==
    is_heartbeat_stale(bm.last_heartbeat) /\ bm.state = "running"

\* bot_status, lines 624-630, one statement at a time
bot_status_step(t, bm) ==
    CASE t.pc = "get_status" ->
             [task |-> [t EXCEPT !.pc = "check", !.status = get_status(bm)],
              bm |-> bm]
      [] t.pc = "check" ->
             [task |-> [t EXCEPT !.pc = IF reports_disconnected(bm)
                                        THEN "mark_manager" ELSE "return"],
              bm |-> bm]
      [] t.pc = "mark_manager" ->
             [task |-> [t EXCEPT !.pc = "mark_status"],
              bm |-> [bm EXCEPT !.state = "disconnected"]]
      [] t.pc = "mark_status" ->
             [task |-> [t EXCEPT !.pc = "return",
                                 !.status.state = "disconnected"],
              bm |-> bm]

\* bot_status, line 632: the BotStatus returned
StatusResponse(t) ==
    [op |-> "status", status |-> 200, state |-> t.status.state,
     lastHeartbeatTs |-> t.status.lastHeartbeatTs,
     currentSymbol |-> t.status.currentSymbol, tf |-> t.status.tf,
     openPositions |-> t.status.openPositions, pnl |-> t.status.pnl,
     lastSignals |-> t.status.lastSignals, at |-> now]

\* a heartbeat does not set the state of a stopped bot
HandlerStep_stop_wins(t, bm) ==
    IF t.kind = "heartbeat"
    THEN IF t.pc = "state" /\ bm.state = "stopped"
         THEN [task |-> [t EXCEPT !.pc = "current_symbol"], bm |-> bm]
         ELSE update_heartbeat_step(t, bm)
    ELSE IF t.kind = "control" THEN bot_control_step(t, bm)
    ELSE bot_status_step(t, bm)

\* the statement at t.pc of the handler of task t
HandlerStep(t, bm) ==
    IF t.kind = "heartbeat" THEN update_heartbeat_step(t, bm)
    ELSE IF t.kind = "control" THEN bot_control_step(t, bm)
    ELSE bot_status_step(t, bm)

\* the handler of task t has reached its return or its raise
HandlerEnds(t) == t.pc \in {"return", "raise"}

\* what the handler of task t answers
HandlerResponse(t, bm) ==
    IF t.pc = "raise" THEN HTTPException("control", 400)
    ELSE IF t.kind = "heartbeat" THEN HeartbeatResponse
    ELSE IF t.kind = "control" THEN ControlResponse(t, bm)
    ELSE StatusResponse(t)

\* POST /bot/heartbeat: the handler is entered with a heartbeat
bot_heartbeat(id, state, load, with_signal) ==
    /\ loop_can_start
    /\ free_slot(id)
    /\ with_signal => signals_received < MaxSignals
    /\ signals_received' = IF with_signal THEN signals_received + 1
                           ELSE signals_received
    /\ bot_tasks' = [bot_tasks EXCEPT ![id] =
          [kind |-> "heartbeat", pc |-> "last_heartbeat",
           hb |-> [timestamp |-> now - PayloadLag, state |-> state,
                   symbol |-> load[1], tf |-> load[2],
                   lastSignal |-> IF with_signal
                                  THEN Signal(signals_received + 1) ELSE None,
                   openPositions |-> load[3], pnl |-> load[4]],
           entry |-> bot_manager]]
    /\ resp' = NoResp
    /\ UNCHANGED <<now, bot_manager, last_set>>
    /\ UNCHANGED data_vars

\* a field that the body of a command leaves out ("" stands for a field that
\* the body gives as null or as the empty string)
Omitted == "(omitted)"

\* BotControlRequest, lines 90-93: a field left out of the body takes its
\* default, "BTCUSDT" for symbol and "15m" for tf
BotControlRequest(action, symbol, tf) ==
    [action |-> action,
     symbol |-> IF symbol = Omitted THEN "BTCUSDT" ELSE symbol,
     tf |-> IF tf = Omitted THEN "15m" ELSE tf]

\* POST /bot/control: the handler is entered with the parsed command; body
\* keeps what the body of the request gave
bot_control(id, action, symbol, tf) ==
    /\ loop_can_start
    /\ free_slot(id)
    /\ bot_tasks' = [bot_tasks EXCEPT ![id] =
          LET request == BotControlRequest(action, symbol, tf)
          IN [kind |-> "control", pc |-> "validate",
              action |-> request.action,
              symbol |-> request.symbol, tf |-> request.tf,
              body |-> <<symbol, tf>>, entry |-> bot_manager]]
    /\ resp' = NoResp
    /\ UNCHANGED <<now, bot_manager, signals_received, last_set>>
    /\ UNCHANGED data_vars

\* GET /bot/status: the handler is entered
bot_status(id) ==
    /\ loop_can_start
    /\ free_slot(id)
    /\ bot_tasks' = [bot_tasks EXCEPT ![id] =
          [kind |-> "status", pc |-> "get_status", status |-> None,
           entry |-> bot_manager]]
    /\ resp' = NoResp
    /\ UNCHANGED <<now, bot_manager, signals_received, last_set>>
    /\ UNCHANGED data_vars

\* the handler of task id, of the given kind, executes its next statement
HandlerRuns(id, kind) ==
    /\ bot_tasks[id].kind = kind
    /\ ~HandlerEnds(bot_tasks[id])
    /\ LET t == bot_tasks[id]
           r == HandlerStep(t, bot_manager)
       IN /\ bot_manager' = r.bm
          /\ bot_tasks' = [bot_tasks EXCEPT ![id] = r.task]
          /\ last_set' = IF kind # "status" /\ t.pc = "state"
                         THEN [by |-> kind, state |-> r.bm.state]
                         ELSE last_set
    /\ UNCHANGED <<now, resp, signals_received>>
    /\ UNCHANGED data_vars

update_heartbeat_runs(id) == HandlerRuns(id, "heartbeat")

set_state_runs(id) == HandlerRuns(id, "control")

bot_status_runs(id) == HandlerRuns(id, "status")

\* the handler of task id returns, or raises, and the request is answered
bot_returns(id) ==
    /\ bot_tasks[id].kind # "idle"
    /\ HandlerEnds(bot_tasks[id])
    /\ resp' = HandlerResponse(bot_tasks[id], bot_manager)
    /\ bot_tasks' = [bot_tasks EXCEPT ![id] = NoTask]
    /\ UNCHANGED <<now, bot_manager, signals_received, last_set>>
    /\ UNCHANGED data_vars

----------------------------------------------------------------------------

\* DataAdapter.__init__ / init_influxdb: the client and the write api are set
\* unless the construction raised
Init ==
    /\ now = StartTime
    /\ influx_client \in BOOLEAN
    /\ write_api \in BOOLEAN
    /\ write_api => influx_client
    /\ price_store = [s \in Symbols |-> None]
    /\ candle_store = [k \in Symbols \X Intervals |-> <<>>]
    /\ pc = "idle"
    /\ req = [op |-> "none"]
    /\ influx_price = None
    /\ binance_price = None
    /\ candles = <<>>
    /\ influx_candles = <<>>
    /\ binance_calls = 0
    /\ write_state = "none"
    /\ resp = NoResp
    /\ requests = 0
    /\ bot_manager = BotManagerInit
    /\ bot_tasks = [id \in BotTasks |-> NoTask]
    /\ signals_received = 0
    /\ last_set = [by |-> "init", state |-> "stopped"]


\* the instants of the price scenario: both sides of T_fresh and of the
\* look-back window of the store query
PriceInstants ==
    {StartTime + e : e \in {T_fresh, T_fresh + 1, LookBack, LookBack + 1}}

NextPrice ==
    \/ \E t \in PriceInstants : Tick(t)
    \/ \E s \in Symbols, p \in Prices : WritePricePoint(s, p)
    \/ \E s \in Symbols, ok \in BOOLEAN : get_price_influx(s, ok)
    \/ \E ok \in BOOLEAN, p \in Prices : get_price_binance(ok, p)

SpecPrice == Init /\ [][NextPrice]_vars

\* the instants of the candle scenario: past the 24 hours of the coverage
\* count
CandleInstants == {StartTime + CountHours * 3600 + 60}

NextCandles ==
    \/ \E t \in CandleInstants : Tick(t)
    \/ \E s \in CandleSymbols, i \in Intervals, l \in Limits, ok \in BOOLEAN :
          get_chart_candles_influx(s, i, l, ok)
    \/ get_chart_candles_check
    \/ \E ok \in BOOLEAN : get_chart_candles_binance(ok)
    \/ \E ok \in BOOLEAN : get_chart_candles_write(ok)
    \/ get_chart_candles_return
    \/ caller_cancels
    \/ \E s \in CandleSymbols, i \in Intervals, l \in Limits, ok \in BOOLEAN :
          backfill_candles_count(s, i, l, ok)
    \/ backfill_candles_check
    \/ \E ok \in BOOLEAN : backfill_candles_binance(ok)
    \/ \E ok \in BOOLEAN : backfill_candles_write(ok)

SpecCandles == Init /\ [][NextCandles]_vars

\* the limits of the scenario of all the data endpoints
DataLimits == {3, 100}

\* the price, markets, candle and backfill endpoints together, for one symbol
\* and one interval
NextData ==
    \/ \E t \in CandleInstants : Tick(t)
    \/ \E s \in CandleSymbols : WritePricePoint(s, 100)
    \/ \E s \in CandleSymbols, ok \in BOOLEAN : get_price_influx(s, ok)
    \/ \E ok \in BOOLEAN : get_price_binance(ok, 100)
    \/ \E k \in Listed, ok \in BOOLEAN : get_markets(Tickers(k), ok)
    \/ \E s \in CandleSymbols, l \in DataLimits, ok \in BOOLEAN :
          get_chart_candles_influx(s, "1m", l, ok)
    \/ get_chart_candles_check
    \/ \E ok \in BOOLEAN : get_chart_candles_binance(ok)
    \/ \E ok \in BOOLEAN : get_chart_candles_write(ok)
    \/ get_chart_candles_return
    \/ \E s \in CandleSymbols, l \in DataLimits, ok \in BOOLEAN :
          backfill_candles_count(s, "1m", l, ok)
    \/ backfill_candles_check
    \/ \E ok \in BOOLEAN : backfill_candles_binance(ok)
    \/ \E ok \in BOOLEAN : backfill_candles_write(ok)

SpecData == Init /\ [][NextData]_vars

\* the instants of the bot scenario: both sides of max_age_seconds after a
\* heartbeat at the start, and past it after one at the first stale instant
BotInstants ==
    {StartTime + e : e \in {max_age_seconds, max_age_seconds + 1,
                            2 * max_age_seconds + 2}}

NextBot ==
    \/ \E t \in BotInstants : Tick(t)
    \/ \E id \in BotTasks, s \in BotStates, load \in BotPayloads,
          sig \in BOOLEAN : bot_heartbeat(id, s, load, sig)
    \/ \E id \in BotTasks, a \in BotActions,
          pr \in BotPairs \cup {<<"", "">>, <<Omitted, Omitted>>} :
              bot_control(id, a, pr[1], pr[2])
    \/ \E id \in BotTasks : bot_status(id)
    \/ \E id \in BotTasks : update_heartbeat_runs(id)
    \/ \E id \in BotTasks : set_state_runs(id)
    \/ \E id \in BotTasks : bot_status_runs(id)
    \/ \E id \in BotTasks : bot_returns(id)

SpecBot == Init /\ [][NextBot]_vars

----------------------------------------------------------------------------
(* get price *)

\* a get price request has been answered and nothing else has started
PriceAnswered == pc = "idle" /\ resp.op = "price"

\* the store returned a record whose age at the answer is at most T_fresh
StoreFresh ==
    /\ influx_price # None
    /\ influx_price # Raise
    /\ resp.at - influx_price.timestamp <= T_fresh

\* C1: a successful get price answer is tagged with the store source only if
\* the store returned a record of that symbol aged at most T_fresh, and it is
\* then that record; in every other successful case it is tagged with the
\* exchange source, so a price older than T_fresh is never returned.
C1_StoreOnlyIfFresh ==
    (PriceAnswered /\ resp.status = 200) =>
        /\ resp.source \in {"influx", "binance"}
        /\ resp.source = "influx" =>
              /\ StoreFresh
              /\ influx_price.symbol = resp.symbol
              /\ resp.price = influx_price.price
              /\ resp.timestamp = influx_price.timestamp
        /\ ~StoreFresh => resp.source = "binance"
        /\ resp.at - resp.timestamp <= T_fresh

\* the store returned a record older than T_fresh and the exchange answered
C1_Witness ==
    /\ PriceAnswered /\ resp.status = 200
    /\ influx_price # None
    /\ resp.at - influx_price.timestamp > T_fresh
    /\ resp.source = "binance"

\* C4: get price answers 404 only if the store gave no fresh record and the
\* one exchange request failed; when the exchange returned a price the call
\* succeeds, and no other failure is answered.
C4_NotFoundOnlyIfBothFail ==
    PriceAnswered =>
        /\ resp.status \in {200, 404}
        /\ resp.status = 404 =>
              ~StoreFresh /\ binance_calls = 1 /\ binance_price = None
        /\ binance_price # None => resp.status = 200

\* the store had nothing and the exchange answered
C4_Witness ==
    /\ PriceAnswered /\ resp.status = 200
    /\ influx_price = None
    /\ binance_price # None

\* the store client failed during the request: no connection, or a query error
StoreFailed == ~influx_client \/ ~req.query_ok

\* C5: when the store client fails during get price the resolver goes on to
\* the exchange as if nothing had been found, and if the exchange returns a
\* price the call succeeds with that price and the exchange source.
C5_StoreFailureFallsBack ==
    (req.op = "price" /\ StoreFailed) =>
        /\ influx_price = None
        /\ pc = "price_binance" \/ binance_calls = 1
        /\ (pc = "idle" /\ binance_price # None) =>
              /\ resp.status = 200
              /\ resp.source = "binance"
              /\ resp.price = binance_price.price

\* a query error on a connected store, answered by the exchange
C5_Witness ==
    /\ PriceAnswered /\ resp.status = 200
    /\ influx_client /\ ~req.query_ok
    /\ resp.source = "binance"

----------------------------------------------------------------------------
(* get candles *)

\* a get candles request has been answered and nothing else has started
CandlesAnswered == pc = "idle" /\ req.op = "candles" /\ resp.op = "candles"

\* the store query of the last get candles request has returned
CandlesQueried == req.op = "candles" /\ pc # "candles_check"

\* the answer is the store answer, and the exchange was not asked
ServedFromStore ==
    /\ pc = "idle"
    /\ resp.op = "candles" /\ resp.status = 200
    /\ resp.source = "influxdb"
    /\ resp.candles = influx_candles
    /\ binance_calls = 0

\* C2 as stated: whenever the store returned at least min(50, limit/2)
\* candles, an empty answer to a limit of 0 or 1 included, get candles returns
\* the store candles and does not ask the exchange.
C2_AsStated ==
    (CandlesQueried
        /\ Len(influx_candles) >= Min(SufficientCap, req.limit \div 2))
    => ServedFromStore

\* C2: whenever the store query returned at least one candle and at least
\* min(50, limit // 2) candles, get candles returns exactly those candles
\* tagged with the store source and does not ask the exchange.
C2_SufficientStoreServes ==
    (CandlesQueried
        /\ influx_candles # <<>>
        /\ Len(influx_candles) >= Min(SufficientCap, req.limit \div 2))
    => ServedFromStore

\* the store answers with fewer than 50 candles, enough for the limit
C2_Witness ==
    /\ ServedFromStore
    /\ resp.count < SufficientCap
    /\ resp.count >= resp.limit \div 2

\* C3: get candles answers 404 only if the store query and the exchange both
\* returned no candle.
C3_NoDataOnlyIfBothEmpty ==
    (CandlesAnswered /\ resp.status = 404) =>
        Len(influx_candles) = 0 /\ Len(candles) = 0

\* C6: on the fallback path the response does not wait for the store write:
\* once the exchange candles are fetched the response can be produced, the
\* write still being under way.
C6_WriteDoesNotBlock ==
    pc = "candles_write" => ENABLED get_chart_candles_return

\* C7: on the fallback path the answer is the fetched exchange candles tagged
\* with the exchange source, count being their number, whether the store write
\* succeeded or failed.
C7_WriteFailureInvisible ==
    (CandlesAnswered /\ binance_calls = 1 /\ candles # <<>>) =>
        /\ write_state \in {"ok", "failed", "unavailable"}
        /\ resp.status = 200
        /\ resp.source = "binance"
        /\ resp.candles = candles
        /\ resp.count = Len(candles)

\* the store write failed and the exchange candles were returned
C7_Witness ==
    /\ CandlesAnswered /\ resp.status = 200
    /\ resp.source = "binance"
    /\ write_api /\ write_state = "failed"
    /\ resp.count = 100

\* the last answer is an exchange fallback of `limit` candles on an empty
\* store answer, its write succeeded, and the same request has just queried
\* the store again, successfully and with no time passed
RepeatedAfterFallback ==
    /\ pc = "candles_check"
    /\ resp.op = "candles" /\ resp.status = 200
    /\ resp.source = "binance"
    /\ resp.from_store = 0
    /\ resp.limit > 0 /\ resp.count = resp.limit
    /\ resp.write = "ok"
    /\ req.symbol = resp.symbol
    /\ req.interval = resp.interval
    /\ req.limit = resp.limit
    /\ req.query_ok
    /\ resp.at = now

\* the repeated request is answered by the store with the candles of the
\* fallback, without asking the exchange
RepeatServedFromStore ==
    /\ pc' = "idle"
    /\ resp'.status = 200
    /\ resp'.source = "influxdb"
    /\ resp'.candles = resp.candles
    /\ binance_calls' = 0

\* C8 as stated: after an exchange fallback of L candles on an empty store
\* and its write, the same request, repeated with nothing changed, is answered
\* by the store with the same L candles, for every interval and L.
C8_AsStated ==
    [][(RepeatedAfterFallback /\ pc' # pc) => RepeatServedFromStore]_vars

\* the candles of the fallback are all within the range the store query reads
FallbackInRange == resp.candles[1].timestamp >= now - CandleRange

\* what the code keeps of C8: the repeated request is answered by the store
\* with the same L candles and without asking the exchange when the L candles
\* are all within the 7 days that the store query reads.
C8_SelfHealing ==
    [][(RepeatedAfterFallback /\ FallbackInRange /\ pc' # pc)
          => RepeatServedFromStore]_vars

\* the repeated request of 100 one-minute candles has read them back
C8_Witness ==
    /\ RepeatedAfterFallback /\ FallbackInRange
    /\ req.interval = "1m" /\ req.limit = 100
    /\ candles = resp.candles

----------------------------------------------------------------------------
(* backfill *)

\* a backfill request is answered in this step
BackfillAnswers ==
    /\ pc \in {"backfill_check", "backfill_binance", "backfill_write"}
    /\ pc' = "idle"

\* the last answer is that of a backfill that wrote its candles, the request
\* in flight has its parameters, and no time has passed
RepeatedBackfill ==
    /\ req.op = "backfill" /\ resp.op = "backfill"
    /\ resp.status = "success" /\ resp.write = "ok"
    /\ req.symbol = resp.symbol
    /\ req.interval = resp.interval
    /\ req.limit = resp.limit
    /\ resp.at = now

\* C9 as stated: a backfill repeated with the same parameters and nothing
\* changed is skipped or writes 0 candles, whatever the limit.
C9_AsStated ==
    [][(RepeatedBackfill /\ BackfillAnswers)
          => (resp'.status = "skipped" \/ resp'.candlesWritten = 0)]_vars

\* what the code keeps of C9: the repeated backfill leaves the contents of the
\* store as they are; it is skipped, with candlesWritten = 0, exactly when the
\* store counts at least 100 candles of the last 24 hours, and otherwise it
\* writes the same candles again and, when the write succeeds, reports the
\* candlesWritten of the first call.
C9_RepeatKeepsStore ==
    [][(RepeatedBackfill /\ BackfillAnswers) =>
          /\ candle_store' = candle_store
          /\ resp'.status = "skipped" <=> req.current_count >= threshold
          /\ resp'.status = "skipped" => resp'.candlesWritten = 0
          /\ (resp'.status = "success" /\ resp'.write = "ok") =>
                resp'.candlesWritten = resp.candlesWritten]_vars

\* the repeated backfill found fewer than 100 candles and is about to write
\* the candles of the first call again
C9_Witness ==
    /\ RepeatedBackfill
    /\ pc = "backfill_write"
    /\ req.current_count > 0
    /\ Len(candles) = resp.candlesWritten

\* C10 as stated: a backfill answered "success" reports as candlesWritten the
\* number of candles this invocation added to the store, the candles already
\* present under the same key not being counted.
C10_AsStated ==
    [][(pc = "backfill_write" /\ pc' = "idle") =>
          LET key == <<req.symbol, req.interval>>
          IN resp'.candlesWritten =
                 Len(candle_store'[key]) - Len(candle_store[key])]_vars

\* what the code reports instead of C10: candlesWritten is the number of
\* fetched candles handed to the store, those already present under the same
\* key included, and 0 when the write failed or no write api is available.
C10_WrittenCountsBatch ==
    [][(pc = "backfill_write" /\ pc' = "idle") =>
          /\ resp'.status = "success"
          /\ resp'.write = "ok" => resp'.candlesWritten = Len(candles)
          /\ resp'.write # "ok" => resp'.candlesWritten = 0]_vars

\* a backfill has written, and counted, candles that the store all had
C10_Witness ==
    /\ pc = "idle"
    /\ resp.op = "backfill" /\ resp.status = "success"
    /\ resp.write = "ok"
    /\ resp.limit > 0
    /\ resp.current_count = resp.limit
    /\ resp.candlesWritten = resp.limit

\* the store holds, for the request in flight, at least 100 candles of the
\* last 24 hours, and the count query has returned
CoverageReached ==
    /\ pc = "backfill_check"
    /\ influx_client /\ req.query_ok
    /\ Len(RowsInRange(req.symbol, req.interval, CountHours * 3600))
           >= threshold

\* C11: when the store counts at least 100 candles of (symbol, interval) in
\* the last 24 hours, backfill answers "skipped" with candlesWritten = 0 and
\* the count in its message, asks the exchange nothing and writes nothing.
C11_CoveredIsSkipped ==
    [][CoverageReached =>
          /\ pc' = "idle"
          /\ resp'.op = "backfill" /\ resp'.status = "skipped"
          /\ resp'.candlesWritten = 0
          /\ resp'.message.text = "Sufficient data exists"
          /\ resp'.message.n =
                 Len(RowsInRange(req.symbol, req.interval, CountHours * 3600))
          /\ binance_calls' = 0 /\ candles' = <<>>
          /\ write_state' = "none"
          /\ candle_store' = candle_store]_vars

\* a backfill was skipped on a store of exactly 100 candles
C11_Witness ==
    /\ pc = "idle"
    /\ resp.op = "backfill" /\ resp.status = "skipped"
    /\ resp.message.n = threshold
    /\ Len(candle_store[<<resp.symbol, resp.interval>>]) = threshold

\* C12: when the coverage is below the threshold and the exchange yields no
\* candles, backfill answers "failed" with candlesWritten = 0, as a response
\* and not as an exception, and writes nothing to the store.
C12_NoCandlesIsFailed ==
    [][(pc = "backfill_binance" /\ candles' = <<>>) =>
          /\ pc' = "idle"
          /\ resp'.op = "backfill" /\ resp'.status = "failed"
          /\ resp'.candlesWritten = 0
          /\ write_state' = "none"
          /\ candle_store' = candle_store]_vars

\* a backfill of a positive limit failed at the exchange, the store being
\* short of the threshold
C12_Witness ==
    /\ pc = "idle"
    /\ resp.op = "backfill" /\ resp.status = "failed"
    /\ resp.limit > 0
    /\ resp.current_count < threshold
    /\ resp.binance_calls = 1
    /\ write_state = "none"

----------------------------------------------------------------------------
(* bot supervisor *)

\* no handler of a /bot request is under way
BotQuiet == \A id \in BotTasks : bot_tasks[id].kind = "idle"

\* the handler of task id, of the given kind, returns in this step
Returns(id, kind) ==
    /\ bot_tasks[id].kind = kind
    /\ bot_tasks[id].pc = "return"
    /\ bot_tasks'[id] = NoTask

\* a status read is answered in this step
StatusReturns == \E id \in BotTasks : Returns(id, "status")

\* C13: after a heartbeat with state running received at T and no later
\* heartbeat or command, a status read later than T + 60 s reports
\* "disconnected" and one at or before T + 60 s reports "running"; a status
\* read at the arrival of a heartbeat reports the state the heartbeat carried.
C13_StaleAfterMaxAge ==
    [][(StatusReturns /\ last_set.by = "heartbeat") =>
          /\ last_set.state = "running" =>
                resp'.state =
                    IF now - bot_manager.last_heartbeat > max_age_seconds
                    THEN "disconnected" ELSE "running"
          /\ bot_manager.last_heartbeat = now =>
                resp'.state = last_set.state]_vars

\* a status read 61 s after a running heartbeat has reported "disconnected"
C13_Witness ==
    /\ BotQuiet
    /\ resp.op = "status" /\ resp.state = "disconnected"
    /\ last_set = [by |-> "heartbeat", state |-> "running"]
    /\ now - resp.lastHeartbeatTs = max_age_seconds + 1

\* C14: a status read leaves the stored fields of the bot as they are.
C14_StatusReadKeepsState ==
    [][(\E id \in BotTasks : bot_tasks[id].kind = "status")
          => bot_manager' = bot_manager]_vars

\* C15: a status read reports "disconnected" only when the last heartbeat is
\* older than 60 s and the last heartbeat or command set the state running;
\* a state paused or stopped is reported as it is; no step of a command sets
\* the state to "disconnected".
C15_DisconnectedOnlyWhenStaleRunning ==
    [][/\ StatusReturns =>
             /\ resp'.state = "disconnected" =>
                   /\ now - bot_manager.last_heartbeat > max_age_seconds
                   /\ last_set.state = "running"
             /\ last_set.state \in {"paused", "stopped"} =>
                   resp'.state = last_set.state
       /\ (\E id \in BotTasks : bot_tasks[id].kind = "control") =>
             (bot_manager'.state = "disconnected" =>
                 bot_manager.state = "disconnected")]_vars

\* a paused bot is reported paused on a stale heartbeat, after a command
C15_Witness ==
    /\ BotQuiet
    /\ resp.op = "status" /\ resp.state = "paused"
    /\ last_set = [by |-> "control", state |-> "paused"]
    /\ now - resp.lastHeartbeatTs > max_age_seconds

\* the newest signals, at most 3 of them, newest first
NewestSignals ==
    [k \in 1..Min(SignalCapacity, signals_received) |->
        Signal(signals_received - k + 1)]

\* C16: between requests last_signals holds the up to 3 most recently received
\* signals, newest first, and never more than 3.
C16_RecentSignals ==
    BotQuiet =>
        /\ Len(bot_manager.last_signals) <= SignalCapacity
        /\ bot_manager.last_signals = NewestSignals

\* five signals were received: the fifth, the fourth and the third are kept
C16_Witness ==
    /\ BotQuiet
    /\ signals_received = 5
    /\ bot_manager.last_signals = <<Signal(5), Signal(4), Signal(3)>>

\* C17: a stop command leaves the state stopped and the positions empty,
\* whatever the state and the positions before.
C17_StopClearsPositions ==
    [][\A id \in BotTasks :
          (Returns(id, "control") /\ bot_tasks[id].action = "stop") =>
              /\ bot_manager'.state = "stopped"
              /\ bot_manager'.open_positions = <<>>
              /\ resp'.status = 200 /\ resp'.newState = "stopped"]_vars

\* a stop is about to return, issued on a disconnected bot with a position
C17_Witness ==
    \E id \in BotTasks :
        /\ bot_tasks[id].kind = "control" /\ bot_tasks[id].pc = "return"
        /\ bot_tasks[id].action = "stop"
        /\ bot_tasks[id].entry.state = "disconnected"
        /\ bot_tasks[id].entry.open_positions # <<>>
        /\ bot_manager.state = "stopped"
        /\ bot_manager.open_positions = <<>>

\* the state that an action is to set
StateOf(action) ==
    IF action = "start" THEN "running"
    ELSE IF action = "pause" THEN "paused" ELSE "stopped"

\* C18: from every state a start sets running and a pause sets paused, the
\* response carrying as newState the state set; between requests a start, a
\* pause, a stop, a heartbeat and a status read can always be taken.
C18_CommandsFromEveryState ==
    /\ [](BotQuiet =>
            /\ \A a \in {"start", "pause", "stop"} :
                  ENABLED bot_control(1, a, "", "")
            /\ ENABLED bot_heartbeat(1, "running",
                                     <<"BTCUSDT", "15m", <<>>, 0>>, FALSE)
            /\ ENABLED bot_status(1))
    /\ [][\A id \in BotTasks :
             (Returns(id, "control") /\ valid_action(bot_tasks[id].action)) =>
                 /\ bot_manager'.state = StateOf(bot_tasks[id].action)
                 /\ resp'.status = 200
                 /\ resp'.newState = bot_manager'.state]_vars

\* a start is about to return, issued after "disconnected" was stored
C18_Witness ==
    \E id \in BotTasks :
        /\ bot_tasks[id].kind = "control" /\ bot_tasks[id].pc = "return"
        /\ bot_tasks[id].action = "start"
        /\ bot_tasks[id].entry.state = "disconnected"
        /\ bot_manager.state = "running"

\* C19: a heartbeat is never rejected; it sets state, current_symbol,
\* current_tf, open_positions and pnl to what it carries and last_heartbeat
\* to the time of its arrival, not to its timestamp.
C19_HeartbeatSetsFields ==
    [][\A id \in BotTasks :
          Returns(id, "heartbeat") =>
              LET hb == bot_tasks[id].hb IN
              /\ resp'.op = "heartbeat" /\ resp'.status = 200
              /\ bot_manager'.state = hb.state
              /\ bot_manager'.current_symbol = hb.symbol
              /\ bot_manager'.current_tf = hb.tf
              /\ bot_manager'.open_positions = hb.openPositions
              /\ bot_manager'.pnl = hb.pnl
              /\ bot_manager'.last_heartbeat = now]_vars

\* a heartbeat is about to return, received on a disconnected bot, its
\* timestamp not being the time of its arrival
C19_Witness ==
    \E id \in BotTasks :
        /\ bot_tasks[id].kind = "heartbeat" /\ bot_tasks[id].pc = "return"
        /\ bot_tasks[id].entry.state = "disconnected"
        /\ bot_tasks[id].hb.timestamp # now
        /\ bot_tasks[id].hb.state = "paused"
        /\ bot_manager.state = "paused"
        /\ bot_manager.last_heartbeat = now

\* the task as it was when its handler was entered
Entered(t) ==
    IF t.kind = "heartbeat" THEN [t EXCEPT !.pc = "last_heartbeat"]
    ELSE IF t.kind = "control" THEN [t EXCEPT !.pc = "validate"]
    ELSE [t EXCEPT !.pc = "get_status", !.status = None]

\* the manager and the response once the handler of t has run from bm to its
\* end with nothing in between
RECURSIVE RunHandler(_, _)
RunHandler(t, bm) ==
    IF HandlerEnds(t) THEN [bm |-> bm, resp |-> HandlerResponse(t, bm)]
    ELSE LET r == HandlerStep(t, bm) IN RunHandler(r.task, r.bm)

\* C20: at most one handler of a /bot request is under way at a time, and
\* every request leaves the manager and returns the response that its handler
\* yields when run alone from the state it found: the requests are applied
\* one after the other, none on a partly applied heartbeat or command.
C20_AtomicRequests ==
    /\ [](Cardinality({id \in BotTasks : bot_tasks[id].kind # "idle"}) <= 1)
    /\ [][\A id \in BotTasks :
             (bot_tasks[id].kind # "idle" /\ bot_tasks'[id] = NoTask) =>
                 LET t == bot_tasks[id]
                     alone == RunHandler(Entered(t), t.entry)
                 IN /\ bot_manager' = alone.bm
                    /\ resp' = alone.resp]_vars

\* a heartbeat is half applied: its state is set and its signal inserted, the
\* oldest signal not yet dropped
C20_Witness ==
    \E id \in BotTasks :
        /\ bot_tasks[id].kind = "heartbeat" /\ bot_tasks[id].pc = "trim"
        /\ Len(bot_manager.last_signals) = SignalCapacity + 1
        /\ bot_manager.state # bot_tasks[id].entry.state

\* C21: of a heartbeat and a command the one applied last sets the stored
\* state: a heartbeat applied after a command, a stop included, leaves the
\* state and the positions it carries, and a command applied after a
\* heartbeat leaves the state of its action.
C21_LastWriteWins ==
    [][\A id \in BotTasks :
          /\ (Returns(id, "heartbeat") /\ last_set.by = "heartbeat") =>
                /\ bot_manager'.state = bot_tasks[id].hb.state
                /\ bot_manager'.open_positions = bot_tasks[id].hb.openPositions
          /\ (Returns(id, "control") /\ last_set.by = "control") =>
                bot_manager'.state = StateOf(bot_tasks[id].action)
          /\ Returns(id, "heartbeat") => last_set.by = "heartbeat"
          /\ (Returns(id, "control")
                 /\ bot_tasks[id].action \in {"start", "pause", "stop"})
                => last_set.by = "control"]_vars

\* a heartbeat reporting running with a position is about to return, applied
\* after a stop that had emptied the positions
C21_Witness ==
    \E id \in BotTasks :
        /\ bot_tasks[id].kind = "heartbeat" /\ bot_tasks[id].pc = "return"
        /\ bot_tasks[id].entry.state = "stopped"
        /\ bot_tasks[id].entry.open_positions = <<>>
        /\ bot_tasks[id].entry.pnl = 5
        /\ bot_tasks[id].hb.state = "running"
        /\ bot_tasks[id].hb.openPositions # <<>>
        /\ bot_manager.state = "running"
        /\ bot_manager.open_positions = bot_tasks[id].hb.openPositions

\* C22: a command whose action is not start, pause or stop is answered 400
\* and leaves every field of the bot as it was, current_symbol and current_tf
\* included, whatever symbol and tf it carries.
C22_InvalidActionRejected ==
    [][\A id \in BotTasks :
          (/\ bot_tasks[id].kind = "control"
           /\ bot_tasks[id].action \notin {"start", "pause", "stop"}
           /\ bot_tasks'[id] = NoTask) =>
              /\ resp'.op = "control" /\ resp'.status = 400
              /\ bot_manager' = bot_tasks[id].entry]_vars

\* a command of action "restart" is about to be refused; it carries a symbol
\* and a tf that are not the current ones
C22_Witness ==
    \E id \in BotTasks :
        /\ bot_tasks[id].kind = "control" /\ bot_tasks[id].pc = "raise"
        /\ bot_tasks[id].action = "restart"
        /\ bot_tasks[id].symbol \notin {"", bot_manager.current_symbol}
        /\ bot_tasks[id].tf \notin {"", bot_manager.current_tf}

----------------------------------------------------------------------------
(* get price: the age of the timestamp *)

----------------------------------------------------------------------------
(* get markets *)

\* a get markets request has been answered
MarketsAnswered == pc = "idle" /\ req.op = "markets" /\ resp.op = "markets"

----------------------------------------------------------------------------
(* get candles: the bound of a sufficient store answer *)

\* C25 as stated: a get candles answer tagged with the store source has at
\* least min(50, limit/2) candles, half of the limit not rounded: twice its
\* count is at least min(100, limit).
C25_AsStated ==
    (CandlesAnswered /\ resp.status = 200 /\ resp.source = "influxdb") =>
        2 * resp.count >= Min(2 * SufficientCap, resp.limit)

\* C25: get candles answers with the store source exactly when the store
\* query returned at least one candle and at least min(50, limit // 2)
\* candles, half of the limit rounded down; otherwise it asks the exchange once
\* for `limit` candles and, when that result is not empty, answers exactly
\* those candles, tagged with the exchange source, count being their number.
C25_FloorBound ==
    CandlesAnswered =>
        LET enough == /\ influx_candles # <<>>
                      /\ Len(influx_candles)
                            >= Min(SufficientCap, req.limit \div 2)
        IN /\ enough => ServedFromStore
           /\ ~enough =>
                 /\ binance_calls = 1
                 /\ candles # <<>> =>
                       /\ Len(candles) = req.limit
                       /\ resp.status = 200
                       /\ resp.source = "binance"
                       /\ resp.candles = candles
                       /\ resp.count = Len(candles)

\* one stored candle answers a request of limit 3 from the store
C25_Witness ==
    /\ ServedFromStore
    /\ resp.limit = 3
    /\ resp.count = 1

----------------------------------------------------------------------------
(* get candles: the order of the store read and the exchange request *)

\* a step of a get candles request issues a request to the exchange
ExchangeAsked ==
    /\ req'.op = "candles"
    /\ binance_calls' # binance_calls
    /\ binance_calls' > 0

\* C26: within one get candles request the store read has returned, with its
\* candles or with none after a failure, before a request to the exchange is
\* issued: while the answer of the store is being examined no exchange request
\* has been issued, and the step that issues one belongs to the same request
\* and starts from the answer the store query has already given.
C26_StoreReadBeforeExchange ==
    /\ [](pc = "candles_check" => binance_calls = 0)
    /\ [][ExchangeAsked =>
             /\ pc = "candles_binance"
             /\ req' = req
             /\ binance_calls = 0
             /\ influx_candles' = influx_candles
             /\ influx_candles =
                   get_candles_from_influx(req.symbol, req.interval,
                                           req.limit, req.query_ok)
             /\ ~sufficient(influx_candles, req.limit)]_vars

\* the store query failed and the exchange has then been asked
C26_Witness ==
    /\ req.op = "candles"
    /\ pc = "candles_write"
    /\ influx_client /\ ~req.query_ok
    /\ influx_candles = <<>>
    /\ binance_calls = 1

----------------------------------------------------------------------------
(* get candles: the caller gives up during the store write *)

\* the caller gives up in this step
CallerCancels ==
    /\ req.op = "candles" /\ req'.op = "candles"
    /\ req.cancelled_at = "none"
    /\ req'.cancelled_at # "none"

\* C27: when the caller of get candles gives up after the exchange fetch has
\* returned, the store write of the fetched candles is not cancelled: giving
\* up changes neither the position of the handler nor the candles, the store
\* or the state of the write, and the handler leaves the write only with the
\* write completed or failed, the store being the one that outcome gives.
C27_WriteSurvivesCancel ==
    [][/\ CallerCancels =>
             UNCHANGED <<pc, candles, candle_store, write_state, resp>>
       /\ (pc = "candles_write" /\ pc' # "candles_write") =>
             /\ pc' = "candles_return"
             /\ write_state' \in {"ok", "failed", "unavailable"}
             /\ write_state' = "unavailable" <=> ~write_api
             /\ candle_store' =
                   StoreAfterWrite(candles, write_state' = "ok")]_vars

\* the caller gave up while the write was in flight, and the write completed
C27_Witness ==
    /\ req.op = "candles"
    /\ req.cancelled_at = "candles_write"
    /\ pc = "candles_return"
    /\ write_state = "ok"
    /\ candle_store[<<req.symbol, req.interval>>] # <<>>

----------------------------------------------------------------------------
(* scheduling of the requests *)

\* a price, candle or backfill request is waiting on a call to the exchange
\* or on a write to the store
WaitingOnNetwork ==
    pc \in {"price_binance", "candles_binance", "candles_write",
            "backfill_binance", "backfill_write"}

\* C28 as stated: while a price, candle or backfill request is waiting on a
\* store or exchange call, a price request for another symbol can start, and
\* so can a status request: no request waits for the network I/O of another.
C28_AsStated ==
    (WaitingOnNetwork /\ requests < MaxRequests) =>
        /\ \E s \in Symbols \ {req.symbol} : ENABLED get_price_influx(s, TRUE)
        /\ \E id \in BotTasks : ENABLED bot_status(id)

\* a candle request for one symbol is waiting on the exchange, and neither a
\* price request for another symbol nor a status request can start
C28_Witness ==
    /\ pc = "candles_binance"
    /\ requests < MaxRequests
    /\ \A s \in Symbols \ {req.symbol} : ~ENABLED get_price_influx(s, TRUE)
    /\ \A id \in BotTasks : ~ENABLED bot_status(id)

----------------------------------------------------------------------------
(* failures of the store client and of the exchange client *)

\* a backfill request has been answered and nothing else has started
BackfillAnswered == pc = "idle" /\ req.op = "backfill" /\ resp.op # "price"
                        /\ resp.op # "candles" /\ resp.op # "markets"

\* the one exchange request of the answered call failed
ExchangeFailed == binance_calls = 1 /\ candles = <<>>

\* C29 as stated: no failure of the store client or of the exchange client
\* during get price, get candles or backfill is answered with 500; get price
\* and get candles answer a failure with the exchange fallback or with 404,
\* and backfill answers a failed exchange fetch and a failed store write with
\* the outcome failed.
C29_AsStated ==
    /\ (PriceAnswered /\ req.op = "price") =>
          /\ resp.status \in {200, 404}
          /\ (StoreFailed /\ resp.status = 200) => resp.source = "binance"
    /\ CandlesAnswered =>
          /\ resp.status \in {200, 404}
          /\ ((StoreFailed \/ write_state = "failed") /\ resp.status = 200)
                => resp.source = "binance"
    /\ BackfillAnswered =>
          /\ resp.op = "backfill"
          /\ (ExchangeFailed \/ write_state = "failed")
                => resp.status = "failed"

\* what the code keeps of C29: none of these failures is answered with 500;
\* get price and get candles answer with the exchange fallback or with 404,
\* backfill answers a failed exchange fetch with the outcome failed, and a
\* failed store write with the outcome success and candlesWritten 0.
C29_NoInternalFailure ==
    /\ (PriceAnswered /\ req.op = "price") =>
          /\ resp.status \in {200, 404}
          /\ (StoreFailed /\ resp.status = 200) => resp.source = "binance"
    /\ CandlesAnswered =>
          /\ resp.status \in {200, 404}
          /\ ((StoreFailed \/ write_state = "failed") /\ resp.status = 200)
                => resp.source = "binance"
    /\ BackfillAnswered =>
          /\ resp.op = "backfill"
          /\ ExchangeFailed => resp.status = "failed"
          /\ write_state = "failed" =>
                resp.status = "success" /\ resp.candlesWritten = 0

\* the store write of a backfill failed, and the outcome is success
C29_Witness ==
    /\ BackfillAnswered
    /\ resp.op = "backfill"
    /\ write_state = "failed"
    /\ resp.status = "success"

----------------------------------------------------------------------------
(* requests to the exchange *)

\* C30: a failed exchange request is never made again: a get price, get
\* candles or backfill request issues at most one request to the exchange, the
\* request ends with the failure of that one, and get price and get candles
\* issue none when the store answer is fresh or sufficient.
C30_NoRetry ==
    /\ req.op \in {"price", "candles", "backfill"} => binance_calls \in {0, 1}
    /\ (req.op = "price" /\ binance_calls = 1) => pc = "idle"
    /\ (req.op \in {"candles", "backfill"} /\ ExchangeFailed) => pc = "idle"
    /\ (PriceAnswered /\ req.op = "price" /\ StoreFresh) => binance_calls = 0
    /\ (CandlesAnswered /\ sufficient(influx_candles, req.limit))
          => binance_calls = 0

\* the exchange failed for a get candles request, which ended with 404 after
\* one request to the exchange
C30_Witness ==
    /\ CandlesAnswered
    /\ resp.status = 404
    /\ ExchangeFailed

----------------------------------------------------------------------------
(* what get price and get candles write to the store *)

\* a step of the get price handler
PriceStep ==
    /\ req'.op = "price"
    /\ <<pc, req, influx_price, binance_price, binance_calls, resp>>'
           # <<pc, req, influx_price, binance_price, binance_calls, resp>>

\* a step of the get candles handler
CandleStep ==
    /\ req'.op = "candles"
    /\ <<pc, req, candles, influx_candles, binance_calls, write_state, resp>>'
           # <<pc, req, candles, influx_candles, binance_calls, write_state,
               resp>>

\* C31: no step of get price changes the price store or the candle store,
\* whether the store answered, the exchange answered or both failed; a step of
\* get candles never changes the price store and changes the candle store only
\* in the write of the exchange fallback, after the store answer was found
\* insufficient and the exchange has given candles; on the path of a
\* sufficient store answer the stores are left as they are.
C31_WritesOnlyOnFallback ==
    [][/\ PriceStep => UNCHANGED <<price_store, candle_store>>
       /\ CandleStep =>
             /\ UNCHANGED price_store
             /\ candle_store' # candle_store =>
                   /\ pc = "candles_write"
                   /\ ~sufficient(influx_candles, req.limit)
                   /\ binance_calls = 1
                   /\ candles # <<>>
                   /\ candle_store' = StoreAfterWrite(candles, TRUE)
             /\ (pc = "candles_check" /\ ServedFromStore') =>
                   UNCHANGED candle_store]_vars

\* the exchange answered a get price request and the price store has no
\* point of the symbol
C31_Witness ==
    /\ PriceAnswered /\ req.op = "price"
    /\ resp.status = 200
    /\ resp.source = "binance"
    /\ price_store[resp.symbol] = None

----------------------------------------------------------------------------
(* commands that leave out symbol and tf *)

\* a valid command of task id returns in this step
ValidCommandReturns(id) ==
    /\ Returns(id, "control")
    /\ bot_tasks[id].action \in {"start", "pause", "stop"}

\* C32 as stated: a start, pause or stop command whose body leaves out symbol
\* and tf leaves current_symbol and current_tf as they were when the command
\* arrived.
C32_AsStated ==
    [][\A id \in BotTasks :
          (ValidCommandReturns(id)
              /\ bot_tasks[id].body = <<Omitted, Omitted>>) =>
              /\ bot_manager'.current_symbol
                    = bot_tasks[id].entry.current_symbol
              /\ bot_manager'.current_tf = bot_tasks[id].entry.current_tf]_vars

\* what the code does: a valid command sets current_symbol and current_tf to
\* the symbol and tf of its body, leaves them as they were when the body gives
\* them as null or empty, and sets them to "BTCUSDT" and "15m" when the body
\* leaves them out.
C32_OmittedTakesDefaults ==
    [][\A id \in BotTasks :
          ValidCommandReturns(id) =>
              LET t == bot_tasks[id] IN
              /\ bot_manager'.current_symbol =
                    IF t.body[1] = Omitted THEN "BTCUSDT"
                    ELSE IF t.body[1] = "" THEN t.entry.current_symbol
                    ELSE t.body[1]
              /\ bot_manager'.current_tf =
                    IF t.body[2] = Omitted THEN "15m"
                    ELSE IF t.body[2] = "" THEN t.entry.current_tf
                    ELSE t.body[2]]_vars

\* a command without symbol and tf is about to return: it arrived with
\* ETHUSDT and 1h current, and BTCUSDT and 15m are current now
C32_Witness ==
    \E id \in BotTasks :
        /\ bot_tasks[id].kind = "control" /\ bot_tasks[id].pc = "return"
        /\ bot_tasks[id].action = "pause"
        /\ bot_tasks[id].body = <<Omitted, Omitted>>
        /\ bot_tasks[id].entry.current_symbol = "ETHUSDT"
        /\ bot_tasks[id].entry.current_tf = "1h"
        /\ bot_manager.current_symbol = "BTCUSDT"
        /\ bot_manager.current_tf = "15m"

----------------------------------------------------------------------------
(* the bot at start-up *)

\* no heartbeat and no command has set the state since start-up
NothingReceived == last_set.by = "init"

\* C33: the bot starts stopped, with no open position, no signal and pnl 0,
\* and stays so as long as no heartbeat and no valid command has been
\* received; a status read answered before any of them reports "stopped",
\* within max_age_seconds of start-up as well as later.
C33_StartsStopped ==
    /\ []((NothingReceived /\ BotQuiet) =>
             /\ bot_manager.state = "stopped"
             /\ bot_manager.open_positions = <<>>
             /\ bot_manager.last_signals = <<>>
             /\ bot_manager.pnl = 0)
    /\ [][(StatusReturns /\ NothingReceived) =>
             /\ resp'.status = 200
             /\ resp'.state = "stopped"
             /\ resp'.openPositions = <<>>
             /\ resp'.lastSignals = <<>>
             /\ resp'.pnl = 0]_vars

\* a status read is about to answer "stopped", max_age_seconds after
\* start-up, nothing having been received
C33_Witness ==
    \E id \in BotTasks :
        /\ NothingReceived
        /\ now = StartTime + max_age_seconds
        /\ bot_tasks[id].kind = "status" /\ bot_tasks[id].pc = "return"
        /\ bot_tasks[id].status.state = "stopped"
        /\ bot_manager.last_heartbeat = StartTime

----------------------------------------------------------------------------
(* what commands leave alone *)

\* the handler of a command executes a statement or returns in this step
CommandStep ==
    \E id \in BotTasks :
        /\ bot_tasks[id].kind = "control"
        /\ bot_tasks'[id] # bot_tasks[id]

\* the statement of update_heartbeat that sets last_heartbeat is executed
HeartbeatIngested ==
    \E id \in BotTasks :
        /\ bot_tasks[id].kind = "heartbeat"
        /\ bot_tasks[id].pc = "last_heartbeat"
        /\ bot_tasks'[id].pc = "state"

\* C34: no statement of a command changes last_heartbeat, pnl or
\* last_signals, and a command that returns leaves them as they were when it
\* arrived; start and pause leave open_positions as they were; last_heartbeat
\* is changed only by the statement of update_heartbeat that sets it, and no
\* step makes it smaller.
C34_CommandsLeaveHeartbeatData ==
    [][/\ CommandStep =>
             /\ bot_manager'.last_heartbeat = bot_manager.last_heartbeat
             /\ bot_manager'.pnl = bot_manager.pnl
             /\ bot_manager'.last_signals = bot_manager.last_signals
       /\ \A id \in BotTasks :
             Returns(id, "control") =>
                 LET t == bot_tasks[id] IN
                 /\ bot_manager'.last_heartbeat = t.entry.last_heartbeat
                 /\ bot_manager'.pnl = t.entry.pnl
                 /\ bot_manager'.last_signals = t.entry.last_signals
                 /\ t.action \in {"start", "pause"} =>
                       bot_manager'.open_positions = t.entry.open_positions
       /\ bot_manager'.last_heartbeat # bot_manager.last_heartbeat =>
             HeartbeatIngested
       /\ bot_manager'.last_heartbeat >= bot_manager.last_heartbeat]_vars

\* a start command is about to return, issued later than the last heartbeat
\* on a bot with a position, a pnl and a signal, all of them still there
C34_Witness ==
    \E id \in BotTasks :
        /\ bot_tasks[id].kind = "control" /\ bot_tasks[id].pc = "return"
        /\ bot_tasks[id].action = "start"
        /\ bot_tasks[id].entry.state = "paused"
        /\ bot_manager.state = "running"
        /\ bot_manager.open_positions # <<>>
        /\ bot_manager.pnl = 5
        /\ bot_manager.last_signals # <<>>
        /\ bot_manager.last_heartbeat < now

----------------------------------------------------------------------------
(* a status read right after a start *)

\* the last answer is that of a start command, given at this instant
StartJustAnswered ==
    /\ resp.op = "control"
    /\ resp.status = 200
    /\ resp.newState = "running"
    /\ resp.at = now

\* the status handler of task id is entered in this step
StatusEntered(id) ==
    /\ bot_tasks[id].kind = "idle"
    /\ bot_tasks'[id].kind = "status"

\* C35 as stated: a status read that follows at once the answer of a start
\* command reports "running", also when the last heartbeat was older than
\* max_age_seconds at the start.
C35_AsStated ==
    [][\A id \in BotTasks :
          (StartJustAnswered /\ StatusEntered(id)) =>
              RunHandler(bot_tasks'[id], bot_manager).resp.state
                  = "running"]_vars

\* what the code does: the status read that follows a start at once reports
\* "running" when the last heartbeat is at most max_age_seconds old and
\* "disconnected" when it is older, and then stores "disconnected".
C35_RunningUnlessStale ==
    [][\A id \in BotTasks :
          (StartJustAnswered /\ StatusEntered(id)) =>
              LET after == RunHandler(bot_tasks'[id], bot_manager)
                  stale == now - bot_manager.last_heartbeat > max_age_seconds
              IN /\ after.resp.state =
                       IF stale THEN "disconnected" ELSE "running"
                 /\ after.bm.state = after.resp.state]_vars

\* a start has set the state, nothing was received since, and a status read
\* entered on the running bot is about to mark it disconnected
C35_Witness ==
    \E id \in BotTasks :
        /\ last_set = [by |-> "control", state |-> "running"]
        /\ bot_tasks[id].kind = "status" /\ bot_tasks[id].pc = "mark_manager"
        /\ bot_tasks[id].entry.state = "running"
        /\ now - bot_manager.last_heartbeat > max_age_seconds

----------------------------------------------------------------------------
(* heartbeats without a signal *)

\* C36: a heartbeat that carries no signal leaves last_signals as they were
\* when it arrived, the same signals in the same order, and sets state,
\* current_symbol, current_tf, open_positions and pnl to what it carries and
\* last_heartbeat to the time of its arrival.
C36_NoSignalKeepsSignals ==
    [][\A id \in BotTasks :
          (Returns(id, "heartbeat") /\ bot_tasks[id].hb.lastSignal = None) =>
              LET t == bot_tasks[id] IN
              /\ bot_manager'.last_signals = t.entry.last_signals
              /\ bot_manager'.state = t.hb.state
              /\ bot_manager'.current_symbol = t.hb.symbol
              /\ bot_manager'.current_tf = t.hb.tf
              /\ bot_manager'.open_positions = t.hb.openPositions
              /\ bot_manager'.pnl = t.hb.pnl
              /\ bot_manager'.last_heartbeat = now]_vars

\* a heartbeat without a signal is about to return: the bot keeps its two
\* signals, and the other fields have changed
C36_Witness ==
    \E id \in BotTasks :
        /\ bot_tasks[id].kind = "heartbeat" /\ bot_tasks[id].pc = "return"
        /\ bot_tasks[id].hb.lastSignal = None
        /\ Len(bot_tasks[id].entry.last_signals) = 2
        /\ bot_manager.last_signals = bot_tasks[id].entry.last_signals
        /\ bot_manager.state # bot_tasks[id].entry.state
        /\ bot_manager.current_symbol # bot_tasks[id].entry.current_symbol
        /\ bot_manager.pnl # bot_tasks[id].entry.pnl
        /\ bot_manager.last_heartbeat > bot_tasks[id].entry.last_heartbeat

----------------------------------------------------------------------------
(* backfill: success and the store *)

\* every candle fetched by the answered request has its point in the store
FetchedInStore ==
    \A k \in 1..Len(candles) :
        \E j \in 1..Len(candle_store[<<req.symbol, req.interval>>]) :
            candle_store[<<req.symbol, req.interval>>][j]
                = [time |-> candles[k].timestamp, close |-> candles[k].close]

\* C37 as stated: when backfill answers success, every candle that it fetched
\* from the exchange is in the store, and the write has neither failed nor
\* been skipped for want of a store.
C37_AsStated ==
    (BackfillAnswered /\ resp.op = "backfill" /\ resp.status = "success") =>
        /\ write_state = "ok"
        /\ FetchedInStore

\* what the code does: backfill answers success exactly when the exchange
\* gave candles, whatever became of the write; the fetched candles are in the
\* store when the write succeeded, and candlesWritten is 0 when it failed or
\* no store was there.
C37_SuccessMeansFetched ==
    (BackfillAnswered /\ resp.op = "backfill") =>
        /\ resp.status = "success" <=> candles # <<>>
        /\ resp.status = "success" =>
              /\ write_state \in {"ok", "failed", "unavailable"}
              /\ write_state = "ok" => FetchedInStore
              /\ write_state # "ok" => resp.candlesWritten = 0

\* backfill has answered success without a store to write to: the store is
\* empty and the fetched candles are nowhere in it
C37_Witness ==
    /\ BackfillAnswered
    /\ resp.op = "backfill"
    /\ resp.status = "success"
    /\ write_state = "unavailable"
    /\ candles # <<>>
    /\ candle_store[<<req.symbol, req.interval>>] = <<>>

====
